---- MODULE Spec2Model ----
(***************************************************************************)
(* Model of mozapkpublisher/push_aab.py: the command line front end        *)
(* (main), the upload orchestrator (push_aab) and the package grouper      *)
(* (_aabs_by_package_name).  One run of the program is one behaviour: a    *)
(* caller (main or a direct caller of push_aab) supplies the arguments,    *)
(* push_aab validates them, extracts the metadata of every AAB, groups     *)
(* the AABs by package name and drives one store transaction per group.    *)
(***************************************************************************)
EXTENDS Integers, Sequences, FiniteSets, TLC

\* ------------------------------------------------------------------------
\* Bounds of the model
\* ------------------------------------------------------------------------

\* The largest number of AAB files given to one run.
MaxAabs == 3

\* ------------------------------------------------------------------------
\* Python values.  An argument of push_aab is None, an int or a str; the
\* three are kept apart by a tag so that truthiness and equality are
\* computed as Python computes them.
\* ------------------------------------------------------------------------

PyNone == [t |-> "none", i |-> 0, s |-> ""]

PyInt(n) == [t |-> "int", i |-> n, s |-> ""]

PyStr(x) == [t |-> "str", i |-> 0, s |-> x]

\* bool(v) for the values above: None, 0 and "" are falsy.
Truthy(v) ==
    CASE v.t = "none" -> FALSE
      [] v.t = "int"  -> v.i # 0
      [] v.t = "str"  -> v.s # ""

\* A boolean keyword argument as the caller passed it: "absent" when it was
\* not passed, else the Python literal.
Absent == "absent"

PassedBool == {Absent, "True", "False"}

Passed(b) == IF b THEN "True" ELSE "False"

\* The value a boolean parameter takes in the body of the function.
ArgOrDefault(passed, default) ==
    IF passed = Absent THEN default ELSE passed = "True"

\* ------------------------------------------------------------------------
\* Inputs
\* ------------------------------------------------------------------------

\* The AAB files of a run are named by their position on the command line.
Aabs == 1..MaxAabs

\* Package names the metadata of an AAB may carry.
PackageNames == {"com.app.a", "com.app.b"}

\* The content of a file whose metadata extraction or validation fails.
Invalid == "invalid"

FileContents == PackageNames \cup {Invalid}

\* Stores a caller may name; only "google" is supported.
TargetStores == {PyStr("google"), PyStr("amazon"), PyNone}

\* Tracks a caller may name (None: not given).
Tracks == {PyStr("rollout"), PyStr("beta"), PyStr("")}

\* Rollout percentages: what choices=range(0, 101) accepts, sampled at the
\* two ends and in the middle.
RolloutPercentages == {PyInt(0), PyInt(50), PyInt(100)}

_STORE_PER_TARGET_PLATFORM == {PyStr("google")}

\* Variant of DefaultDryRun: a run commits unless told otherwise.
DefaultDryRunCommit == FALSE

\* dry_run=True in the signature of push_aab.
DefaultDryRun == TRUE

\* contact_server=True in the signature of push_aab.
DefaultContactServer == TRUE

VARIABLES
    pc,                      \* position in main/push_aab
    caller,                  \* "none", "main" or "api"
    given,                   \* the arguments as the caller passed them
    files,                   \* content of each AAB file of the run
    aabs,                    \* push_aab parameter: sequence of AAB files
    target_store,            \* push_aab parameter
    track,                   \* push_aab parameter
    rollout_percentage,      \* push_aab parameter
    dry_run,                 \* push_aab parameter
    contact_server,          \* push_aab parameter
    extractor_calls,         \* number of calls of the metadata extractor
    aabs_metadata_per_paths, \* dict aab -> metadata, in insertion order
    update_aab_kwargs,       \* dict of keyword arguments for update_aab
    aabs_by_package_name,    \* dict package_name -> list of (aab, metadata)
    idx,                     \* position of the for loop in the dict's items
    transactions,            \* every transaction opened so far, in order
    update_calls,            \* every invocation of edit.update_aab, in order
    update_failed,           \* update_aab raised in the open transaction
    failed_txn,              \* transaction in which update_aab raised, or 0
    error,                   \* exception raised out of push_aab, or "none"
    exit_code                \* exit status set by parser.error, or -1

vars == <<pc, caller, given, files, aabs, target_store, track,
          rollout_percentage, dry_run, contact_server, extractor_calls,
          aabs_metadata_per_paths, update_aab_kwargs, aabs_by_package_name,
          idx, transactions, update_calls, update_failed, failed_txn,
          error, exit_code>>

args == <<aabs, target_store, track, rollout_percentage, dry_run,
          contact_server>>

work == <<extractor_calls, aabs_metadata_per_paths, update_aab_kwargs,
          aabs_by_package_name, idx, transactions, update_calls,
          update_failed, failed_txn>>

\* An ordered dict: its keys in insertion order and the value of each key.
EmptyDict == [keys |-> <<>>, vals |-> <<>>]

Init ==
    /\ pc = "idle"
    /\ caller = "none"
    /\ given = [dry_run |-> Absent, contact_server |-> Absent,
                commit |-> FALSE, do_not_contact_server |-> FALSE]
    /\ files = <<>>
    /\ aabs = <<>>
    /\ target_store = PyNone
    /\ track = PyNone
    /\ rollout_percentage = PyNone
    /\ dry_run = DefaultDryRun
    /\ contact_server = DefaultContactServer
    /\ extractor_calls = 0
    /\ aabs_metadata_per_paths = <<>>
    /\ update_aab_kwargs = <<>>
    /\ aabs_by_package_name = EmptyDict
    /\ idx = 0
    /\ transactions = <<>>
    /\ update_calls = <<>>
    /\ update_failed = FALSE
    /\ failed_txn = 0
    /\ error = "none"
    /\ exit_code = -1

\* ------------------------------------------------------------------------
\* Pure functions
\* ------------------------------------------------------------------------

\* The metadata of one AAB: only package_name is read by push_aab.
Metadata(package_name) == [package_name |-> package_name]

\* extract_and_check_aabs_metadata: a dict with one (aab, metadata) item per
\* AAB, in the order of the AABs, or a failure when some file is invalid.
ExtractionFails(aab_files, contents) ==
    \E i \in 1..Len(aab_files) : contents[aab_files[i]] = Invalid

extract_and_check_aabs_metadata(aab_files, contents) ==
    [i \in 1..Len(aab_files) |->
        [aab |-> aab_files[i], metadata |-> Metadata(contents[aab_files[i]])]]

\* package_name in aab_package_names
HasKey(dict, key) == \E i \in 1..Len(dict.keys) : dict.keys[i] = key

\* dict[key]
Get(dict, key) ==
    dict.vals[CHOOSE i \in 1..Len(dict.keys) : dict.keys[i] = key]

\* dict[key] = value: a new key goes last, an existing key keeps its place.
Put(dict, key, value) ==
    IF HasKey(dict, key)
    THEN [keys |-> dict.keys,
          vals |-> [i \in 1..Len(dict.keys) |->
                       IF dict.keys[i] = key THEN value ELSE dict.vals[i]]]
    ELSE [keys |-> Append(dict.keys, key),
          vals |-> Append(dict.vals, value)]

\* Variant of GroupItem that assigns the list instead of appending to it.
GroupItemAssign(aab_package_names, item) ==
    Put(aab_package_names, item.metadata.package_name, <<item>>)

\* Variant of GroupItem that inserts at the head of the list.
GroupItemPrepend(aab_package_names, item) ==
    LET package_name == item.metadata.package_name
        created == IF ~HasKey(aab_package_names, package_name)
                   THEN Put(aab_package_names, package_name, <<>>)
                   ELSE aab_package_names
    IN  Put(created, package_name, <<item>> \o Get(created, package_name))

\* One iteration of the loop of _aabs_by_package_name.
GroupItem(aab_package_names, item) ==
    LET package_name == item.metadata.package_name
        created == IF ~HasKey(aab_package_names, package_name)
                   THEN Put(aab_package_names, package_name, <<>>)
                   ELSE aab_package_names
    IN  Put(created, package_name, Append(Get(created, package_name), item))

RECURSIVE GroupFrom(_, _, _)
GroupFrom(aab_package_names, aabs_metadata, i) ==
    IF i > Len(aabs_metadata)
    THEN aab_package_names
    ELSE GroupFrom(GroupItem(aab_package_names, aabs_metadata[i]),
                   aabs_metadata, i + 1)

_aabs_by_package_name(aabs_metadata) == GroupFrom(EmptyDict, aabs_metadata, 1)

\* The dict comprehension of push_aab: a keyword argument is kept when its
\* value is truthy.
UpdateAabKwargs(track_, rollout_percentage_) ==
    LET pairs == [track |-> track_, rollout_percentage |-> rollout_percentage_]
    IN  [k \in {n \in {"track", "rollout_percentage"} : Truthy(pairs[n])}
            |-> pairs[k]]

\* target_store != "google"
StoreUnsupported(target_store_) == target_store_ # PyStr("google")

\* Variant of TrackMissing in which the check of the track is left out.
TrackMissingUnchecked(track_) == FALSE

\* track is None
TrackMissing(track_) == track_ = PyNone

\* How the scope of a transaction ends: the edit is committed when the body
\* succeeded and the run is not a dry run, and is abandoned otherwise.
TransactionExit(failed, dry_run_) ==
    IF failed \/ dry_run_ THEN "aborted" ELSE "committed"

\* ------------------------------------------------------------------------
\* Operations
\* ------------------------------------------------------------------------

Final == {"done", "raised", "exit"}

\* The AAB files of a run and their contents.
ChooseFiles ==
    \E n \in 0..MaxAabs :
        /\ aabs' = [i \in 1..n |-> i]
        /\ \E contents \in [1..n -> FileContents] : files' = contents

\* main: parse the command line and call push_aab with the parsed values.
\* Without the "google" subcommand target_store is None and so are track
\* and rollout_percentage.
main ==
    /\ pc = "idle"
    /\ ChooseFiles
    /\ \E store \in {PyStr("google"), PyNone},
          config_track \in Tracks,
          config_rollout \in RolloutPercentages \cup {PyNone},
          commit \in BOOLEAN,
          do_not_contact_server \in BOOLEAN :
            /\ target_store' = store
            /\ track' = IF store = PyStr("google") THEN config_track
                        ELSE PyNone
            /\ rollout_percentage' = IF store = PyStr("google")
                                     THEN config_rollout ELSE PyNone
            /\ dry_run' = ~commit
            /\ contact_server' = ~do_not_contact_server
            /\ given' = [dry_run |-> Passed(~commit),
                         contact_server |-> Passed(~do_not_contact_server),
                         commit |-> commit,
                         do_not_contact_server |-> do_not_contact_server]
    /\ caller' = "main"
    /\ pc' = "check_args"
    /\ UNCHANGED <<work, error, exit_code>>

\* A direct call of push_aab: every keyword argument may be left out.
push_aab_call ==
    /\ pc = "idle"
    /\ ChooseFiles
    /\ \E store \in TargetStores,
          track_ \in Tracks \cup {PyNone},
          rollout_ \in RolloutPercentages \cup {PyNone},
          dry_run_ \in PassedBool,
          contact_server_ \in PassedBool :
            /\ target_store' = store
            /\ track' = track_
            /\ rollout_percentage' = rollout_
            /\ dry_run' = ArgOrDefault(dry_run_, DefaultDryRun)
            /\ contact_server' =
                   ArgOrDefault(contact_server_, DefaultContactServer)
            /\ given' = [dry_run |-> dry_run_,
                         contact_server |-> contact_server_,
                         commit |-> FALSE,
                         do_not_contact_server |-> FALSE]
    /\ caller' = "api"
    /\ pc' = "check_args"
    /\ UNCHANGED <<work, error, exit_code>>

\* The two argument checks at the top of push_aab.
CheckArguments ==
    /\ pc = "check_args"
    /\ IF StoreUnsupported(target_store) \/ TrackMissing(track)
       THEN /\ error' = "WrongArgumentGiven"
            /\ pc' = "raised"
       ELSE /\ error' = error
            /\ pc' = "extract"
    /\ UNCHANGED <<caller, given, files, args, work, exit_code>>

\* Variant of ExtractMetadata that skips the files whose extraction fails
\* and goes on with the others.
ExtractMetadataLenient ==
    /\ pc = "extract"
    /\ extractor_calls' = extractor_calls + 1
    /\ aabs_metadata_per_paths' =
           extract_and_check_aabs_metadata(
               SelectSeq(aabs, LAMBDA a : files[a] # Invalid), files)
    /\ error' = error
    /\ pc' = "prepare"
    /\ UNCHANGED <<caller, given, files, args, update_aab_kwargs,
                   aabs_by_package_name, idx, transactions, update_calls,
                   update_failed, failed_txn, exit_code>>

\* aabs_metadata_per_paths = extract_and_check_aabs_metadata(aabs); an
\* exception of the extractor is not caught by push_aab.
ExtractMetadata ==
    /\ pc = "extract"
    /\ extractor_calls' = extractor_calls + 1
    /\ IF ExtractionFails(aabs, files)
       THEN /\ error' = "ValidationError"
            /\ pc' = "raised"
            /\ UNCHANGED aabs_metadata_per_paths
       ELSE /\ aabs_metadata_per_paths' =
                   extract_and_check_aabs_metadata(aabs, files)
            /\ error' = error
            /\ pc' = "prepare"
    /\ UNCHANGED <<caller, given, files, args, update_aab_kwargs,
                   aabs_by_package_name, idx, transactions, update_calls,
                   update_failed, failed_txn, exit_code>>

\* The keyword arguments of update_aab and the groups, computed before the
\* loop starts.
Prepare ==
    /\ pc = "prepare"
    /\ update_aab_kwargs' = UpdateAabKwargs(track, rollout_percentage)
    /\ aabs_by_package_name' = _aabs_by_package_name(aabs_metadata_per_paths)
    /\ idx' = 1
    /\ pc' = "loop"
    /\ UNCHANGED <<caller, given, files, args, extractor_calls,
                   aabs_metadata_per_paths, transactions, update_calls,
                   update_failed, failed_txn, error, exit_code>>

\* The for loop is over: push_aab returns.
Return ==
    /\ pc = "loop"
    /\ idx > Len(aabs_by_package_name.keys)
    /\ pc' = "done"
    /\ UNCHANGED <<caller, given, files, args, work, error, exit_code>>

\* The transaction the with statement opens for the current item.
NewTransaction(package_name) ==
    [package_name |-> package_name, contact_server |-> contact_server,
     dry_run |-> dry_run, status |-> "open"]

\* with store.transaction(...) as edit: the transaction of the current
\* package is opened, or the store refuses and no transaction exists.
OpenTransaction ==
    /\ pc = "loop"
    /\ idx <= Len(aabs_by_package_name.keys)
    /\ target_store \in _STORE_PER_TARGET_PLATFORM
    /\ \/ /\ transactions' =
                Append(transactions,
                       NewTransaction(aabs_by_package_name.keys[idx]))
          /\ pc' = "update"
          /\ error' = error
       \/ /\ transactions' = transactions
          /\ pc' = "raised"
          /\ error' = "RemoteError"
    /\ UNCHANGED <<caller, given, files, args, extractor_calls,
                   aabs_metadata_per_paths, update_aab_kwargs,
                   aabs_by_package_name, idx, update_calls, update_failed,
                   failed_txn, exit_code>>

\* Variant of ExtractedAabs that hands every AAB of the run to update_aab.
ExtractedAabsUngrouped == aabs_metadata_per_paths

\* The first argument of edit.update_aab for the current item.
ExtractedAabs == aabs_by_package_name.vals[idx]

\* edit.update_aab(extracted_aabs, **update_aab_kwargs): the call returns or
\* raises.
UpdateAab ==
    /\ pc = "update"
    /\ update_calls' =
           Append(update_calls,
                  [txn |-> Len(transactions),
                   extracted_aabs |-> ExtractedAabs,
                   kwargs |-> update_aab_kwargs])
    /\ \E raises \in BOOLEAN :
          /\ update_failed' = raises
          /\ failed_txn' = IF raises THEN Len(transactions) ELSE failed_txn
    /\ pc' = "exit_txn"
    /\ UNCHANGED <<caller, given, files, args, extractor_calls,
                   aabs_metadata_per_paths, update_aab_kwargs,
                   aabs_by_package_name, idx, transactions, error, exit_code>>

\* Variant of CloseLast in which the scope is left without closing it.
CloseLastLeaking(status) == transactions

\* The transactions with the last one closed in the given way.
CloseLast(status) ==
    [transactions EXCEPT ![Len(transactions)].status = status]

\* Variant of ExitTransaction that swallows a failure of update_aab and goes
\* on with the next group.
ExitTransactionSwallowing ==
    /\ pc = "exit_txn"
    /\ transactions' = CloseLast(TransactionExit(update_failed, dry_run))
    /\ error' = error
    /\ pc' = "loop"
    /\ idx' = idx + 1
    /\ update_failed' = FALSE
    /\ UNCHANGED <<caller, given, files, args, extractor_calls,
                   aabs_metadata_per_paths, update_aab_kwargs,
                   aabs_by_package_name, update_calls, failed_txn, exit_code>>

\* The end of the with block.  After a failure of update_aab the scope is
\* closed and the exception leaves push_aab; otherwise the scope is closed
\* (the commit itself may be refused by the store) and the loop goes on.
ExitTransaction ==
    /\ pc = "exit_txn"
    /\ IF update_failed
       THEN /\ transactions' = CloseLast(TransactionExit(TRUE, dry_run))
            /\ error' = "RemoteError"
            /\ pc' = "raised"
            /\ idx' = idx
       ELSE \/ /\ transactions' = CloseLast(TransactionExit(FALSE, dry_run))
               /\ error' = error
               /\ pc' = "loop"
               /\ idx' = idx + 1
            \/ /\ ~dry_run
               /\ transactions' = CloseLast(TransactionExit(TRUE, dry_run))
               /\ error' = "RemoteError"
               /\ pc' = "raised"
               /\ idx' = idx
    /\ update_failed' = FALSE
    /\ UNCHANGED <<caller, given, files, args, extractor_calls,
                   aabs_metadata_per_paths, update_aab_kwargs,
                   aabs_by_package_name, update_calls, failed_txn, exit_code>>

\* except WrongArgumentGiven as e: parser.error(e) ends the process with
\* status 2.
ParserError ==
    /\ pc = "raised"
    /\ caller = "main"
    /\ error = "WrongArgumentGiven"
    /\ exit_code' = 2
    /\ pc' = "exit"
    /\ UNCHANGED <<caller, given, files, args, work, error>>

Next ==
    \/ main
    \/ push_aab_call
    \/ CheckArguments
    \/ ExtractMetadata
    \/ Prepare
    \/ Return
    \/ OpenTransaction
    \/ UpdateAab
    \/ ExitTransaction
    \/ ParserError

Spec == Init /\ [][Next]_vars

TypeOK ==
    /\ pc \in {"idle", "check_args", "extract", "prepare", "loop", "update",
               "exit_txn"} \cup Final
    /\ idx \in 0..(MaxAabs + 1)
    /\ Len(transactions) <= MaxAabs

\* ------------------------------------------------------------------------
\* Properties
\* ------------------------------------------------------------------------

\* The groups have been computed.
Grouped == idx >= 1

PackageOf(item) == item.metadata.package_name

\* The positions (group, place) at which an item occurs in a dict of lists.
Occurrences(dict, item) ==
    {gp \in (1..Len(dict.keys)) \X (1..MaxAabs + 1) :
        /\ gp[2] <= Len(dict.vals[gp[1]])
        /\ dict.vals[gp[1]][gp[2]] = item}

\* The items of the input whose package name is k, in input order.
ItemsOf(items, k) == SelectSeq(items, LAMBDA it : PackageOf(it) = k)

\* The position at which package name k is first seen in the input.
FirstSeen(items, k) ==
    CHOOSE p \in 1..Len(items) :
        /\ PackageOf(items[p]) = k
        /\ \A q \in 1..(p - 1) : PackageOf(items[q]) # k

\* The file contents of the run hold a file whose extraction fails.
SomeFileInvalid == \E i \in 1..Len(aabs) : files[aabs[i]] = Invalid

NoWorkDone ==
    /\ extractor_calls = 0
    /\ transactions = <<>>
    /\ update_calls = <<>>

\* C1: the grouping is a complete and disjoint partition of the input:
\* every input pair occurs in exactly one group and exactly once, no pair
\* is added, every pair of the group keyed K has package_name K, and an
\* empty input gives an empty mapping.
C1_GroupingIsPartition ==
    Grouped =>
        LET d == aabs_by_package_name
            items == aabs_metadata_per_paths
        IN  /\ Len(d.vals) = Len(d.keys)
            /\ \A i, j \in 1..Len(d.keys) : d.keys[i] = d.keys[j] => i = j
            /\ \A p \in 1..Len(items) :
                   Cardinality(Occurrences(d, items[p])) = 1
            /\ \A i \in 1..Len(d.keys) : \A j \in 1..Len(d.vals[i]) :
                   /\ \E p \in 1..Len(items) : items[p] = d.vals[i][j]
                   /\ PackageOf(d.vals[i][j]) = d.keys[i]
            /\ (items = <<>> => d = EmptyDict)

C1_Witness ==
    /\ Grouped
    /\ Len(aabs_metadata_per_paths) = 3
    /\ Len(aabs_by_package_name.keys) = 2

\* C2: the grouping is a stable partition: the keys are in the order in
\* which each package name is first seen in the input, and each group is
\* the input restricted to its package name, in input order.
C2_GroupingIsStable ==
    Grouped =>
        LET d == aabs_by_package_name
            items == aabs_metadata_per_paths
        IN  /\ \A i \in 1..Len(d.keys) :
                   /\ \E p \in 1..Len(items) : PackageOf(items[p]) = d.keys[i]
                   /\ d.vals[i] = ItemsOf(items, d.keys[i])
            /\ \A i, j \in 1..Len(d.keys) :
                   i < j => FirstSeen(items, d.keys[i])
                                < FirstSeen(items, d.keys[j])

C2_Witness ==
    /\ Grouped
    /\ Len(aabs_metadata_per_paths) = 3
    /\ PackageOf(aabs_metadata_per_paths[1]) = "com.app.b"
    /\ PackageOf(aabs_metadata_per_paths[2]) = "com.app.a"
    /\ PackageOf(aabs_metadata_per_paths[3]) = "com.app.b"

\* C3 (as claimed): with track "rollout" and no rollout percentage push_aab
\* fails with a configuration error and opens no transaction.
C3_RolloutWithoutPercentageRejected ==
    (pc # "idle" /\ track = PyStr("rollout") /\ rollout_percentage = PyNone)
        => /\ transactions = <<>>
           /\ (pc \in Final /\ ~SomeFileInvalid)
                  => error = "WrongArgumentGiven"

\* C4: with an unsupported target_store or without a track push_aab raises
\* WrongArgumentGiven, and the extractor is never called, no transaction is
\* opened and update_aab is never invoked.
C4_BadArgumentsRejectedBeforeWork ==
    (pc # "idle" /\ (target_store # PyStr("google") \/ track = PyNone))
        => /\ NoWorkDone
           /\ pc \in {"check_args", "raised", "exit"}
           /\ pc # "check_args" => error = "WrongArgumentGiven"

C4_Witness ==
    /\ pc = "raised"
    /\ error = "WrongArgumentGiven"
    /\ target_store = PyStr("google")
    /\ track = PyNone
    /\ Len(aabs) > 0
    /\ NoWorkDone

\* C5: when the extraction of one of the files fails the run ends with that
\* failure and no transaction is opened for any package.
C5_ExtractionFailureAbortsRun ==
    SomeFileInvalid
        => /\ transactions = <<>>
           /\ update_calls = <<>>
           /\ extractor_calls > 0 =>
                  /\ pc = "raised"
                  /\ error = "ValidationError"

C5_Witness ==
    /\ pc = "raised"
    /\ error = "ValidationError"
    /\ Len(aabs) = 3
    /\ files[1] = "com.app.a"
    /\ files[2] = Invalid
    /\ files[3] = "com.app.b"
    /\ transactions = <<>>

\* C6: when push_aab returns, one transaction was opened per distinct
\* package name of the input, in first-seen order, and in each of them
\* update_aab was invoked once, with the items of that package in input
\* order.
C6_OneTransactionPerPackage ==
    pc = "done" =>
        LET items == aabs_metadata_per_paths
            n == Len(transactions)
        IN  /\ {transactions[i].package_name : i \in 1..n}
                   = {PackageOf(items[p]) : p \in 1..Len(items)}
            /\ \A i, j \in 1..n :
                   i < j => /\ transactions[i].package_name
                                 # transactions[j].package_name
                            /\ FirstSeen(items, transactions[i].package_name)
                                 < FirstSeen(items,
                                             transactions[j].package_name)
            /\ Len(update_calls) = n
            /\ \A i \in 1..n :
                   /\ update_calls[i].txn = i
                   /\ update_calls[i].extracted_aabs
                          = ItemsOf(items, transactions[i].package_name)

C6_Witness ==
    /\ pc = "done"
    /\ Len(transactions) = 2
    /\ Len(update_calls[1].extracted_aabs) = 2
    /\ Len(update_calls[2].extracted_aabs) = 1

\* C7 (as claimed): every invocation of update_aab carries track = T, and
\* carries rollout_percentage = R exactly when the caller supplied R.
C7_KwargsPassedThrough ==
    \A c \in 1..Len(update_calls) :
        LET kwargs == update_calls[c].kwargs
        IN  /\ "track" \in DOMAIN kwargs
            /\ kwargs["track"] = track
            /\ rollout_percentage # PyNone
                   => /\ "rollout_percentage" \in DOMAIN kwargs
                      /\ kwargs["rollout_percentage"] = rollout_percentage
            /\ rollout_percentage = PyNone
                   => "rollout_percentage" \notin DOMAIN kwargs

\* C8: every transaction is opened with the dry_run and contact_server
\* given to push_aab (True when not given), and none is opened with
\* dry_run = False unless the caller passed dry_run = False (--commit).
C8_FlagsPassedThrough ==
    \A i \in 1..Len(transactions) :
        /\ transactions[i].dry_run = (given.dry_run # "False")
        /\ transactions[i].contact_server = (given.contact_server # "False")
        /\ (caller = "main" /\ ~given.commit) => transactions[i].dry_run
        /\ (caller = "main" /\ given.commit) => ~transactions[i].dry_run

C8_Witness ==
    /\ Len(transactions) = 2
    /\ given.dry_run = Absent
    /\ given.contact_server = "False"

\* C9: at most one transaction is open at a time, it is the one of the
\* current group, every earlier one is closed, no two transactions of a run
\* are for the same package, and update_aab is handed items of the
\* transaction's package only.
C9_TransactionsNeverInterleave ==
    /\ \A i \in 1..Len(transactions) :
           transactions[i].status = "open"
               => /\ i = Len(transactions)
                  /\ pc \in {"update", "exit_txn"}
    /\ \A i, j \in 1..Len(transactions) :
           transactions[i].package_name = transactions[j].package_name
               => i = j
    /\ \A c \in 1..Len(update_calls) :
           \A j \in 1..Len(update_calls[c].extracted_aabs) :
               PackageOf(update_calls[c].extracted_aabs[j])
                   = transactions[update_calls[c].txn].package_name

C9_Witness ==
    /\ Len(transactions) = 2
    /\ transactions[1].status = "committed"
    /\ transactions[2].status = "open"

\* C10: when update_aab fails in the transaction of group k, that
\* transaction is closed without a commit, the failure leaves push_aab, no
\* later transaction is opened and update_aab is not invoked again; when
\* push_aab has ended, in whatever way, no transaction is open.
C10_FailureClosesAndHalts ==
    /\ pc \in Final => \A i \in 1..Len(transactions) :
                           transactions[i].status # "open"
    /\ failed_txn # 0 =>
           /\ Len(transactions) = failed_txn
           /\ Len(update_calls) = failed_txn
           /\ transactions[failed_txn].status # "committed"
           /\ pc \in {"exit_txn", "raised"}
           /\ pc = "raised" => /\ error = "RemoteError"
                               /\ transactions[failed_txn].status = "aborted"

C10_Witness ==
    /\ failed_txn = 1
    /\ pc = "raised"
    /\ ~dry_run
    /\ Len(aabs_by_package_name.keys) = 2
    /\ transactions[1].status = "aborted"

====
